---- MODULE Spec2Model ----
(***************************************************************************)
(* Model of the ic-sqlite backup path: src/src/utils.rs (read) and         *)
(* src/src/backup.rs (read_page_from_vfs, stream_db_backup,                *)
(* db_backup_on_memory).                                                   *)
(*                                                                         *)
(* Stable memory is a byte array of stable64_size() WebAssembly pages.     *)
(* The variable stable holds its written prefix; every byte of the region  *)
(* past that prefix is zero (grown stable memory is zero-filled), see      *)
(* StableRange.                                                            *)
(***************************************************************************)
EXTENDS Integers, Sequences, FiniteSets, TLC

\* ---------------------------------------------------------------- constants

\* page size literal passed to read_page_from_vfs
PAGE_SIZE == 4096

\* header reservation added to every offset by read
HEADER == 8

\* bytes per unit of stable64_size()
WASM_PAGE_SIZE == 65536

\* ------------------------------------------------------------------- bounds

\* largest in-region page count the database reports
MaxPageCount == 3

\* number of writes the writer performs
MaxWrites == 1

\* ------------------------------------------------------------------- inputs

Callers == {"c1", "c2"}
None == "none"
Entries == {"stream", "memory"}
FillValues == {171}

\* smallest page count whose last page lies past a one-page region
OobPageCount == ((WASM_PAGE_SIZE - HEADER) \div PAGE_SIZE) + 1

PageCounts == (0 .. MaxPageCount) \cup {OobPageCount}

\* initial contents of the region: every byte depends on its address
InitByte(a) == (a * 7 + (a \div PAGE_SIZE) * 3 + 1) % 256

InitStable(size) ==
    IF size = 0 THEN << >>
    ELSE [k \in 1 .. (HEADER + MaxPageCount * PAGE_SIZE) |-> InitByte(k - 1)]

VARIABLES
    stable_size,   \* stable64_size(): size of the region in WebAssembly pages
    stable,        \* written prefix of the region, byte k-1 at index k
    page_count,    \* what PRAGMA page_count reports
    holder,        \* owner of the CONN mutex guard, or None
    poisoned,      \* CONN mutex poisoned by a panic under the guard
    tx,            \* owner of the open transaction, or None
    pc,            \* position of each caller
    entry,         \* entry point each caller runs
    count,         \* local page_count
    page_number,   \* loop variable
    buffer,        \* local buffer / output
    result,        \* what the caller gets
    failedAt,      \* step at which the call failed
    readCalls,     \* calls of read made by the call, each with the calls of
                   \* stable64_read it made, the region size and the number
                   \* of writes at the time
    events,        \* steps the call has taken, in order
    snap,          \* number of writes the page-count query observed
    writes,        \* number of writes done
    completed      \* completed backups in completion order

vars == << stable_size, stable, page_count, holder, poisoned, tx, pc, entry,
           count, page_number, buffer, result, failedAt, readCalls,
           events, snap, writes, completed >>

store == << stable_size, stable, page_count >>

\* ------------------------------------------------------------ storage reader

RegionBytes == stable_size * WASM_PAGE_SIZE

Zeros(n) == [k \in 1 .. n |-> 0]

\* the region's bytes at [offset, offset + len), zero past the written prefix
StableRange(offset, len) ==
    LET n == Len(stable)
    IN  IF offset + len <= n THEN SubSeq(stable, offset + 1, offset + len)
        ELSE IF offset >= n THEN Zeros(len)
        ELSE SubSeq(stable, offset + 1, n) \o Zeros(offset + len - n)

\* ic_cdk stable64_read(offset, buf): traps when the range leaves the region
stable64_read(offset, len) ==
    IF offset + len > RegionBytes
    THEN [trap |-> TRUE, bytes |-> << >>]
    ELSE [trap |-> FALSE, bytes |-> StableRange(offset, len)]

read_noHeader(buf, offset) ==
    IF stable_size > 0
    THEN LET r == stable64_read(offset, Len(buf))
         IN  [res |-> IF r.trap THEN "Trap" ELSE "Ok",
              buf |-> IF r.trap THEN buf ELSE r.bytes,
              calls |-> << [offset |-> offset, len |-> Len(buf)] >>]
    ELSE [res |-> "Ok", buf |-> buf, calls |-> << >>]

read_noSizeCheck(buf, offset) ==
    LET r == stable64_read(offset + HEADER, Len(buf))
    IN  [res |-> IF r.trap THEN "Trap" ELSE "Ok",
         buf |-> IF r.trap THEN buf ELSE r.bytes,
         calls |-> << [offset |-> offset + HEADER, len |-> Len(buf)] >>]

\* utils::read(buf, offset)
read(buf, offset) ==
    IF stable_size > 0
    THEN LET r == stable64_read(offset + HEADER, Len(buf))
         IN  [res |-> IF r.trap THEN "Trap" ELSE "Ok",
              buf |-> IF r.trap THEN buf ELSE r.bytes,
              calls |-> << [offset |-> offset + HEADER, len |-> Len(buf)] >>]
    ELSE [res |-> "Ok", buf |-> buf, calls |-> << >>]

\* The i64 product, the cast `offset as u64` and the u64 sum offset + 8 are
\* value-preserving here: page_number >= 1 inside the loop, and every offset
\* of the model is far below 2^63.

read_page_from_vfs_offByOne(pn, page_size) ==
    LET offset == pn * page_size
        r == read(Zeros(page_size), offset)
    IN  [res |-> r.res, data |-> r.buf,
         call |-> [offset |-> offset, len |-> page_size],
         calls |-> r.calls]

\* backup::read_page_from_vfs(page_number, page_size)
read_page_from_vfs(pn, page_size) ==
    LET offset == (pn - 1) * page_size
        r == read(Zeros(page_size), offset)
    IN  [res |-> r.res, data |-> r.buf,
         call |-> [offset |-> offset, len |-> page_size],
         calls |-> r.calls]

\* --------------------------------------------------------------------- state

NoResult == [kind |-> "none", bytes |-> << >>]

Init ==
    /\ stable_size \in {0, 1}
    /\ stable = InitStable(stable_size)
    /\ page_count \in PageCounts
    /\ holder = None
    /\ poisoned = FALSE
    /\ tx = None
    /\ pc = [p \in Callers |-> "idle"]
    /\ entry = [p \in Callers |-> None]
    /\ count = [p \in Callers |-> 0]
    /\ page_number = [p \in Callers |-> 0]
    /\ buffer = [p \in Callers |-> << >>]
    /\ result = [p \in Callers |-> NoResult]
    /\ failedAt = [p \in Callers |-> None]
    /\ readCalls = [p \in Callers |-> << >>]
    /\ events = [p \in Callers |-> << >>]
    /\ snap = [p \in Callers |-> 0]
    /\ writes = 0
    /\ completed = << >>

\* ------------------------------------------------------------------- helpers

Set(f, p, v) == [f EXCEPT ![p] = v]

\* A panic (unwrap on an error) or a trap: the calling context is aborted, the
\* local buffer is dropped, the transaction is dropped (rolled back) and the
\* guard is dropped during unwinding, which poisons the mutex.
Abort(p, where) ==
    /\ pc' = Set(pc, p, "aborted")
    /\ result' = Set(result, p, [kind |-> "abort", bytes |-> << >>])
    /\ failedAt' = Set(failedAt, p, where)
    /\ buffer' = Set(buffer, p, << >>)
    /\ events' = Set(events, p, Append(events[p], "abort"))
    /\ holder' = IF holder = p THEN None ELSE holder
    /\ poisoned' = (poisoned \/ holder = p)
    /\ tx' = IF tx = p THEN None ELSE tx

\* ------------------------------------------------------------------- actions

\* CONN.lock().unwrap(): blocks while another guard is alive
Lock(p) ==
    /\ pc[p] = "idle"
    /\ holder = None
    /\ \E e \in Entries :
         /\ entry' = Set(entry, p, e)
         /\ IF poisoned
            THEN /\ Abort(p, "lock")
                 /\ UNCHANGED << store, count, page_number, readCalls, snap, writes, completed >>
            ELSE /\ holder' = p
                 /\ pc' = Set(pc, p, "begin")
                 /\ events' = Set(events, p, Append(events[p], "lock"))
                 /\ UNCHANGED << store, poisoned, tx, count, page_number,
                                 buffer, result, failedAt, readCalls, snap, writes, completed >>

\* conn.transaction().unwrap()
Begin(p) ==
    /\ pc[p] = "begin"
    /\ \E ok \in BOOLEAN :
         IF ok
         THEN /\ tx' = p
              /\ pc' = Set(pc, p, "query")
              /\ events' = Set(events, p, Append(events[p], "begin"))
              /\ UNCHANGED << holder, poisoned, buffer, result, failedAt >>
         ELSE Abort(p, "begin")
    /\ UNCHANGED << store, entry, count, page_number, readCalls,
                    snap, writes, completed >>

Query_dropsGuard(p) ==
    /\ pc[p] = "query"
    /\ \E ok \in BOOLEAN :
         IF ok
         THEN /\ count' = Set(count, p, page_count)
              /\ page_number' = Set(page_number, p, 1)
              /\ snap' = Set(snap, p, writes)
              /\ pc' = Set(pc, p, "loop")
              /\ events' = Set(events, p, Append(events[p], "count"))
              /\ holder' = None
              /\ UNCHANGED << poisoned, tx, buffer, result, failedAt >>
         ELSE /\ Abort(p, "query")
              /\ UNCHANGED << count, page_number, snap >>
    /\ UNCHANGED << store, entry, readCalls, writes, completed >>

\* tx.query_row("PRAGMA page_count;", ..).unwrap(), and the loop's start
Query(p) ==
    /\ pc[p] = "query"
    /\ \E ok \in BOOLEAN :
         IF ok
         THEN /\ count' = Set(count, p, page_count)
              /\ page_number' = Set(page_number, p, 1)
              /\ snap' = Set(snap, p, writes)
              /\ pc' = Set(pc, p, "loop")
              /\ events' = Set(events, p, Append(events[p], "count"))
              /\ UNCHANGED << holder, poisoned, tx, buffer, result, failedAt >>
         ELSE /\ Abort(p, "query")
              /\ UNCHANGED << count, page_number, snap >>
    /\ UNCHANGED << store, entry, readCalls, writes, completed >>

LoopContinues_exclusive(pn, n) == pn < n

\* for page_number in 1..=page_count
LoopContinues(pn, n) == pn <= n

\* the loop body appending to an output vector that outlives the call
LoopBody_sharedOutput(p, r) ==
    /\ readCalls' = Set(readCalls, p, Append(readCalls[p],
                        [offset |-> r.call.offset, len |-> r.call.len,
                         res |-> r.res, region |-> r.calls,
                         size |-> stable_size, at |-> writes]))
    /\ CASE r.res = "Ok" ->
              /\ buffer' = Set(buffer, p,
                     (IF buffer[p] = << >> /\ completed # << >>
                      THEN result[completed[Len(completed)].proc].bytes
                      ELSE buffer[p]) \o r.data)
              /\ page_number' = Set(page_number, p, page_number[p] + 1)
              /\ events' = Set(events, p, Append(events[p], "read"))
              /\ UNCHANGED << holder, poisoned, tx, pc, result, failedAt >>
         [] r.res = "Err" /\ entry[p] = "stream" ->
              /\ pc' = Set(pc, p, "returned")
              /\ result' = Set(result, p, [kind |-> "Err", bytes |-> << >>])
              /\ failedAt' = Set(failedAt, p, "read")
              /\ buffer' = Set(buffer, p, << >>)
              /\ events' = Set(events, p, Append(events[p], "error"))
              /\ holder' = IF holder = p THEN None ELSE holder
              /\ tx' = IF tx = p THEN None ELSE tx
              /\ UNCHANGED << poisoned, page_number >>
         [] OTHER ->
              /\ Abort(p, "read")
              /\ UNCHANGED page_number

\* What one pass of the loop body does at page_number[p], given the page read
\* and whether its failure is propagated by `?` (stream) or unwrapped (memory)
LoopBody(p, r) ==
    /\ readCalls' = Set(readCalls, p, Append(readCalls[p],
                        [offset |-> r.call.offset, len |-> r.call.len,
                         res |-> r.res, region |-> r.calls,
                         size |-> stable_size, at |-> writes]))
    /\ CASE r.res = "Ok" ->
              /\ buffer' = Set(buffer, p, buffer[p] \o r.data)
              /\ page_number' = Set(page_number, p, page_number[p] + 1)
              /\ events' = Set(events, p, Append(events[p], "read"))
              /\ UNCHANGED << holder, poisoned, tx, pc, result, failedAt >>
         [] r.res = "Err" /\ entry[p] = "stream" ->
              /\ pc' = Set(pc, p, "returned")
              /\ result' = Set(result, p, [kind |-> "Err", bytes |-> << >>])
              /\ failedAt' = Set(failedAt, p, "read")
              /\ buffer' = Set(buffer, p, << >>)
              /\ events' = Set(events, p, Append(events[p], "error"))
              /\ holder' = IF holder = p THEN None ELSE holder
              /\ tx' = IF tx = p THEN None ELSE tx
              /\ UNCHANGED << poisoned, page_number >>
         [] OTHER ->
              /\ Abort(p, "read")
              /\ UNCHANGED page_number

\* let page_data = read_page_from_vfs(page_number, 4096)?; (or .unwrap())
\* buffer.write_all(&page_data)?; (or output.extend_from_slice)
ReadPage(p) ==
    /\ pc[p] = "loop"
    /\ LoopContinues(page_number[p], count[p])
    /\ LoopBody(p, read_page_from_vfs(page_number[p], PAGE_SIZE))
    /\ UNCHANGED << store, entry, count, snap, writes, completed >>

Commit_early(p) ==
    /\ pc[p] = "loop"
    /\ \E ok \in BOOLEAN :
         IF ok
         THEN /\ tx' = None
              /\ pc' = Set(pc, p, "committed")
              /\ events' = Set(events, p, Append(events[p], "commit"))
              /\ UNCHANGED << holder, poisoned, buffer, result, failedAt >>
         ELSE Abort(p, "commit")
    /\ UNCHANGED << store, entry, count, page_number, readCalls,
                    snap, writes, completed >>

Commit_ignoresFailure(p) ==
    /\ pc[p] = "loop"
    /\ ~ LoopContinues(page_number[p], count[p])
    /\ \E ok \in BOOLEAN :
         /\ tx' = None
         /\ pc' = Set(pc, p, "committed")
         /\ events' = Set(events, p, Append(events[p], "commit"))
         /\ failedAt' = Set(failedAt, p, IF ok THEN failedAt[p] ELSE "commit")
         /\ UNCHANGED << holder, poisoned, buffer, result >>
    /\ UNCHANGED << store, entry, count, page_number, readCalls,
                    snap, writes, completed >>

\* tx.commit().unwrap(), once the loop has ended
Commit(p) ==
    /\ pc[p] = "loop"
    /\ ~ LoopContinues(page_number[p], count[p])
    /\ \E ok \in BOOLEAN :
         IF ok
         THEN /\ tx' = None
              /\ pc' = Set(pc, p, "committed")
              /\ events' = Set(events, p, Append(events[p], "commit"))
              /\ UNCHANGED << holder, poisoned, buffer, result, failedAt >>
         ELSE Abort(p, "commit")
    /\ UNCHANGED << store, entry, count, page_number, readCalls,
                    snap, writes, completed >>

\* Ok(io::Cursor::new(buffer)) / output; the guard is dropped on return
Return(p) ==
    /\ pc[p] = "committed"
    /\ pc' = Set(pc, p, "returned")
    /\ result' = Set(result, p,
                     [kind |-> IF entry[p] = "stream" THEN "Ok" ELSE "Vec",
                      bytes |-> buffer[p]])
    /\ buffer' = Set(buffer, p, << >>)
    /\ events' = Set(events, p, Append(events[p], "return"))
    /\ holder' = IF holder = p THEN None ELSE holder
    /\ completed' = Append(completed, [proc |-> p, writes |-> writes])
    /\ UNCHANGED << store, poisoned, tx, entry, count, page_number, failedAt,
                    readCalls, snap, writes >>

Max(a, b) == IF a >= b THEN a ELSE b

\* Another operation on the connection: under the CONN guard it overwrites
\* database page i with the byte v, growing the file and the region as needed.
Write ==
    /\ holder = None
    /\ ~ poisoned
    /\ writes < MaxWrites
    /\ \E i \in 1 .. MaxPageCount, v \in FillValues :
         LET lo == HEADER + (i - 1) * PAGE_SIZE
             hi == HEADER + i * PAGE_SIZE
             old == StableRange(0, Max(Len(stable), hi))
         IN  /\ stable' = SubSeq(old, 1, lo) \o [k \in 1 .. PAGE_SIZE |-> v]
                             \o SubSeq(old, hi + 1, Len(old))
             /\ stable_size' = Max(stable_size, 1)
             /\ page_count' = Max(page_count, i)
    /\ writes' = writes + 1
    /\ UNCHANGED << holder, poisoned, tx, pc, entry, count, page_number,
                    buffer, result, failedAt, readCalls, events,
                    snap, completed >>

Next ==
    \/ \E p \in Callers : Lock(p)
    \/ \E p \in Callers : Begin(p)
    \/ \E p \in Callers : Query(p)
    \/ \E p \in Callers : ReadPage(p)
    \/ \E p \in Callers : Commit(p)
    \/ \E p \in Callers : Return(p)
    \/ Write

Spec == Init /\ [][Next]_vars

\* -------------------------------------------------------------------- claims

\* a backup that completed: the caller holds its buffer
Completed(p) == pc[p] = "returned" /\ result[p].kind \in {"Ok", "Vec"}

IsPrefix(s, t) == Len(s) <= Len(t) /\ s = SubSeq(t, 1, Len(s))

\* C1: a backup that completes returns exactly page_count * 4096 bytes, by
\* either entry point, and the empty buffer when page_count is 0.
C1_Length ==
    \A p \in Callers :
        Completed(p) =>
            /\ count[p] >= 0
            /\ Len(result[p].bytes) = count[p] * 4096
            /\ (count[p] = 0 => result[p].bytes = << >>)

C1_Witness ==
    \E p, q \in Callers :
        /\ Completed(p) /\ entry[p] = "stream" /\ count[p] = MaxPageCount
        /\ Completed(q) /\ entry[q] = "memory" /\ count[q] = MaxPageCount

\* C2: while nothing has been written since the backup's page-count query,
\* page i of a completed backup (buffer positions [(i-1)*4096, i*4096)) holds
\* the bytes of the storage region at [(i-1)*4096 + 8, i*4096 + 8), for every
\* i in 1..page_count, whenever the region holds bytes at all.
C2_PageBytes ==
    \A p \in Callers :
        (Completed(p) /\ writes = snap[p] /\ stable_size > 0) =>
            \A i \in 1 .. count[p] :
                SubSeq(result[p].bytes, (i - 1) * 4096 + 1, i * 4096)
                    = StableRange((i - 1) * 4096 + 8, 4096)

C2_Witness ==
    \E p \in Callers :
        /\ Completed(p) /\ writes = snap[p] /\ stable_size > 0
        /\ count[p] = MaxPageCount
        /\ writes = 1
        /\ \E i \in 1 .. count[p] :
             SubSeq(result[p].bytes, (i - 1) * 4096 + 1, i * 4096)
                 = [k \in 1 .. 4096 |-> 171]

\* C3: while the region reports zero size, no read of a backup touches the
\* region, no read fails, every page read so far is 4096 zero bytes, and a
\* completed backup is page_count * 4096 zero bytes.
C3_ZeroRegion ==
    \A p \in Callers :
        stable_size = 0 =>
            /\ \A k \in 1 .. Len(readCalls[p]) :
                 readCalls[p][k].region = << >> /\ readCalls[p][k].res = "Ok"
            /\ failedAt[p] # "read"
            /\ (pc[p] \in {"loop", "committed"} =>
                  buffer[p] = Zeros(Len(readCalls[p]) * 4096))
            /\ (Completed(p) =>
                  /\ Len(readCalls[p]) = count[p]
                  /\ result[p].bytes = Zeros(count[p] * 4096))

C3_Witness ==
    \E p \in Callers :
        /\ stable_size = 0
        /\ Completed(p)
        /\ count[p] = MaxPageCount
        /\ Len(readCalls[p]) = MaxPageCount
        /\ Len(result[p].bytes) = MaxPageCount * 4096

\* C4: every failure of stream_db_backup reaches its caller as an error
\* result, and every failure of db_backup_on_memory aborts the caller.
C4_FailureVisibility ==
    \A p \in Callers :
        failedAt[p] # None =>
            /\ (entry[p] = "stream" => result[p].kind = "Err")
            /\ (entry[p] = "memory" => result[p].kind = "abort")

\* C5: a backup in which any step failed has ended, without a second attempt
\* at any step, and its caller holds no bytes; a caller that holds a buffer
\* holds all page_count pages of a backup in which nothing failed.
C5_AllOrNothing ==
    \A p \in Callers :
        /\ (failedAt[p] # None =>
              /\ pc[p] \in {"aborted", "returned"}
              /\ result[p].kind \in {"abort", "Err"}
              /\ result[p].bytes = << >>)
        /\ (result[p].kind \in {"Ok", "Vec"} =>
              /\ failedAt[p] = None
              /\ Len(result[p].bytes) = count[p] * 4096)
        /\ \A e \in {"lock", "begin", "count", "commit", "return"} :
              Cardinality({k \in 1 .. Len(events[p]) : events[p][k] = e}) <= 1

C5_Witness ==
    \E p \in Callers :
        /\ failedAt[p] = "read"
        /\ Len(readCalls[p]) > 1
        /\ result[p].bytes = << >>

\* C6: a read whose copy cannot complete, because offset + 8 + length lies
\* past the end of a non-empty region, ends in an error result, and a read
\* that reports success has filled its buffer (from the region, when the
\* region is not empty).
C6_ReadSignalsError ==
    \A p \in Callers :
        \A k \in 1 .. Len(readCalls[p]) :
            LET c == readCalls[p][k]
                inRange == c.offset + 8 + c.len <= c.size * 65536
            IN  /\ (c.size > 0 /\ ~ inRange => c.res = "Err")
                /\ (c.res = "Ok" => c.size = 0 \/ inRange)

\* consecutive completed backups with no write in between hold equal bytes
C7_StateIdempotent ==
    \A i \in 1 .. Len(completed) - 1 :
        completed[i].writes = completed[i + 1].writes =>
            result[completed[i].proc].bytes = result[completed[i + 1].proc].bytes

\* C7: of two backups completed one after the other with no write in between,
\* both return the same bytes (after every step); and no step of a backup
\* changes the storage region, its size or the database's page count.
C7_Idempotent ==
    [][/\ C7_StateIdempotent'
       /\ ((pc' # pc \/ page_number' # page_number) => UNCHANGED store)]_vars

C7_Witness ==
    /\ Len(completed) = 2
    /\ completed[1].writes = completed[2].writes
    /\ completed[1].writes = 1
    /\ Len(result[completed[1].proc].bytes) = MaxPageCount * 4096
    /\ entry[completed[1].proc] = entry[completed[2].proc]

\* C8: the i-th read call of a backup is for 4096 bytes at page offset
\* (i-1)*4096, its only access to a non-empty region is one read of 4096 bytes
\* at region offset 8 + (i-1)*4096, the calls are made in ascending order, and
\* a backup that has read all its pages has made exactly page_count calls.
C8_ReadCalls ==
    \A p \in Callers :
        /\ \A i \in 1 .. Len(readCalls[p]) :
              LET c == readCalls[p][i]
              IN  /\ c.offset = (i - 1) * 4096
                  /\ c.len = 4096
                  /\ c.region = IF c.size > 0
                                THEN << [offset |-> 8 + (i - 1) * 4096, len |-> 4096] >>
                                ELSE << >>
        /\ (pc[p] = "loop" => Len(readCalls[p]) = page_number[p] - 1)
        /\ Len(readCalls[p]) <= count[p]
        /\ (pc[p] \in {"committed", "returned"} /\ failedAt[p] = None =>
              Len(readCalls[p]) = count[p])

C8_Witness ==
    \E p, q \in Callers :
        /\ Completed(p) /\ count[p] = 0 /\ readCalls[p] = << >>
        /\ Completed(q) /\ count[q] = 3
        /\ [i \in 1 .. 3 |-> readCalls[q][i].region]
             = << << [offset |-> 8, len |-> 4096] >>,
                  << [offset |-> 4104, len |-> 4096] >>,
                  << [offset |-> 8200, len |-> 4096] >> >>

\* the steps of a backup of n pages, in order
Canonical(n) ==
    << "lock", "begin", "count" >> \o [k \in 1 .. n |-> "read"]
        \o << "commit", "return" >>

\* the steps taken before the call ended in failure, if it did
Taken(ev) ==
    IF ev # << >> /\ ev[Len(ev)] \in {"abort", "error"}
    THEN SubSeq(ev, 1, Len(ev) - 1) ELSE ev

\* C9: the steps of a backup are a prefix of lock, begin, count, page_count
\* reads, commit, return; pages are read only inside the transaction and under
\* the guard; a buffer is returned only after all of these steps.
C9_Order ==
    \A p \in Callers :
        /\ IsPrefix(Taken(events[p]), Canonical(count[p]))
        /\ (pc[p] \in {"query", "loop"} => tx = p /\ holder = p)
        /\ (pc[p] \in {"idle", "begin", "committed", "returned", "aborted"} => tx # p)
        /\ (Completed(p) => events[p] = Canonical(count[p]))
        /\ (readCalls[p] # << >> => pc[p] # "begin" /\ pc[p] # "query")

C9_Witness ==
    \E p \in Callers :
        /\ Completed(p)
        /\ events[p] = << "lock", "begin", "count", "read", "read", "commit", "return" >>

\* C10: a caller between its lock and its return holds the connection, while
\* the connection is held nobody else can take it and no write is possible,
\* and every page read of a backup saw the same number of writes as its
\* page-count query.
C10_Snapshot ==
    /\ \A p \in Callers :
          /\ (pc[p] \in {"begin", "query", "loop", "committed"} => holder = p)
          /\ \A k \in 1 .. Len(readCalls[p]) : readCalls[p][k].at = snap[p]
    /\ (holder # None =>
          /\ ~ ENABLED Write
          /\ \A q \in Callers : ~ ENABLED Lock(q))

C10_Witness ==
    \E p, q \in Callers :
        /\ p # q
        /\ pc[p] = "loop" /\ Len(readCalls[p]) >= 1 /\ page_number[p] <= count[p]
        /\ pc[q] = "idle"
        /\ writes < MaxWrites /\ ~ poisoned
        /\ ~ ENABLED Write
        /\ ~ ENABLED Lock(q)

====
